---- MODULE Spec2Model ----
(***************************************************************************)
(* Global resource quota of capsule: one GlobalResourceQuota (GRQ), its    *)
(* managed per-namespace ResourceQuota objects, the reconciler             *)
(* (controllers/globalquota) and the admission handlers                    *)
(* (pkg/webhook/globalquota).                                              *)
(*                                                                         *)
(* A ResourceList is a function from a set of resource names to integers.  *)
(* The GRQ carries a resourceVersion; a status write with a stale version  *)
(* is a conflict, and a write that changes nothing keeps the version.      *)
(***************************************************************************)
EXTENDS Integers, Sequences, FiniteSets, TLC

\* ------------------------------------------------------------------ bounds
\* largest used / hard quantity an admission request may carry
MaxQty == 2
\* number of operations of the cluster's users and of the orchestrator
MaxOps == 2
\* number of operations when only the operator and the namespaces act
MaxChanges == 3
\* admission requests that may be in flight at once
MaxInflight == 2
\* attempts of retry.RetryOnConflict (the steps of its backoff)
RetrySteps == 2

\* ------------------------------------------------------- the model's world
\* namespaces of the cluster, in the order a List call returns them
NsOrder == <<"a", "b", "c">>
Namespaces == {NsOrder[k] : k \in 1..Len(NsOrder)}
\* resource names
Resources == {"pods"}
\* item names an operator may declare
Items == {"pods", "extra"}
\* hard limits an operator declares for an item (scenarios of the e2e suite)
HardChoices == {2, 5}
\* revisions of the status mutator found in the repository
Builds == {"head", "plain", "retry"}

\* ------------------------------------------------------------ ResourceList
EmptyRL == [r \in {} |-> 0]
One(r, v) == [x \in {r} |-> v]
Has(rl, r) == r \in DOMAIN rl
Val(rl, r) == IF r \in DOMAIN rl THEN rl[r] ELSE 0
Max(x, y) == IF x >= y THEN x ELSE y
Range(s) == {s[k] : k \in 1..Len(s)}

\* ------------------------------------------------------- arithmetic engine
\* GlobalResourceQuota.GetQuotaSpace: remaining space of an item.  The result
\* is [ok, space]; ok = FALSE stands for the (nil, "no item found") return.
\* a plausible slip: without a status row the declared hard is not looked up
GetQuotaSpace_NoFallback(g, index) ==
  IF index \in DOMAIN g.status.quota
  THEN LET quotaStatus == g.status.quota[index]
       IN [ok |-> TRUE,
           space |-> [resourceName \in DOMAIN quotaStatus.hard |->
                        LET remaining == quotaStatus.hard[resourceName]
                                         - Val(quotaStatus.used, resourceName)
                        IN IF remaining < 0 THEN 0 ELSE remaining]]
  ELSE [ok |-> FALSE, space |-> EmptyRL]

\* a plausible slip: a negative remainder is not set to zero
GetQuotaSpace_NoClamp(g, index) ==
  IF index \in DOMAIN g.status.quota
  THEN LET quotaStatus == g.status.quota[index]
       IN [ok |-> TRUE,
           space |-> [resourceName \in DOMAIN quotaStatus.hard |->
                        quotaStatus.hard[resourceName]
                        - Val(quotaStatus.used, resourceName)]]
  ELSE IF index \in DOMAIN g.items
  THEN [ok |-> TRUE, space |-> g.items[index]]
  ELSE [ok |-> FALSE, space |-> EmptyRL]

GetQuotaSpace(g, index) ==
  IF index \in DOMAIN g.status.quota
  THEN LET quotaStatus == g.status.quota[index]
       IN [ok |-> TRUE,
           space |-> [resourceName \in DOMAIN quotaStatus.hard |->
                        LET remaining == quotaStatus.hard[resourceName]
                                         - Val(quotaStatus.used, resourceName)
                        IN IF remaining < 0 THEN 0 ELSE remaining]]
  ELSE IF index \in DOMAIN g.items
  THEN [ok |-> TRUE, space |-> g.items[index]]
  ELSE [ok |-> FALSE, space |-> EmptyRL]

\* a plausible slip: the caller's own usage is not added back
GetAggregatedQuotaSpace_NoAddBack(g, index, used) == GetQuotaSpace(g, index)

\* GlobalResourceQuota.GetAggregatedQuotaSpace: remaining space plus the
\* caller's own usage (only when a status row exists).
GetAggregatedQuotaSpace(g, index, used) ==
  IF index \in DOMAIN g.status.quota
  THEN LET quotaStatus == g.status.quota[index]
       IN [ok |-> TRUE,
           space |-> [resourceName \in DOMAIN quotaStatus.hard |->
                        LET remaining == quotaStatus.hard[resourceName]
                                         - Val(quotaStatus.used, resourceName)
                            clamped == IF remaining < 0 THEN 0 ELSE remaining
                        IN IF Has(used, resourceName)
                           THEN clamped + used[resourceName]
                           ELSE clamped]]
  ELSE IF index \in DOMAIN g.items
  THEN [ok |-> TRUE, space |-> g.items[index]]
  ELSE [ok |-> FALSE, space |-> EmptyRL]

\* position of a namespace name in the lexical order of names
Rank(n) == CHOOSE k \in 1..Len(NsOrder) : NsOrder[k] = n

RECURSIVE Insert(_, _)
Insert(x, s) ==
  IF s = <<>> THEN <<x>>
  ELSE IF Rank(x) <= Rank(Head(s)) THEN <<x>> \o s
  ELSE <<Head(s)>> \o Insert(x, Tail(s))

\* sort.Strings
RECURSIVE SortStrings(_)
SortStrings(s) == IF s = <<>> THEN <<>> ELSE Insert(Head(s), SortStrings(Tail(s)))

\* Namespace.Status.Phase: Active, Terminating, or not set
Phases == {"Active", "Terminating", ""}

\* the namespaces of the cluster as the reconciler lists them: those of the
\* model are not being deleted and are in phase Active
NamespaceObjects(names) ==
  [k \in 1..Len(names) |-> [name |-> names[k], phase |-> "Active"]]

\* the loop of AssignNamespaces: the names of the namespaces in phase Active,
\* in the order given
RECURSIVE ActiveNames(_)
ActiveNames(namespaces) ==
  IF namespaces = <<>> THEN <<>>
  ELSE (IF Head(namespaces).phase = "Active"
        THEN <<Head(namespaces).name>> ELSE <<>>)
       \o ActiveNames(Tail(namespaces))

\* a plausible slip: the phase of the namespaces is not looked at
AssignNamespaces_AnyPhase(status, namespaces) ==
  LET l == SortStrings([k \in 1..Len(namespaces) |-> namespaces[k].name])
  IN [status EXCEPT !.namespaces = l, !.size = Len(l)]

\* GlobalResourceQuota.AssignNamespaces
AssignNamespaces(status, namespaces) ==
  LET l == SortStrings(ActiveNames(namespaces))
  IN [status EXCEPT !.namespaces = l, !.size = Len(l)]

\* ------------------------------------------------------------------- state
VARIABLES
  build,    \* revision of the status mutator that serves UPDATE requests
  grq,      \* the GlobalResourceQuota object as stored by the API server
  nsMatch,  \* nsMatch[n]: namespace n is selected by the GRQ's selectors
  rq,       \* rq[n][i]: managed ResourceQuota of item i in namespace n
  rec,      \* the reconcile in progress (Manager.Reconcile)
  adm,      \* admission requests in flight
  resp,     \* the answer to the admission request that completed last
  dirty,    \* a reconcile request for the GRQ is queued
  ops,      \* operations performed so far by users and the orchestrator
  budget    \* operations the users and the orchestrator perform at most

vars == <<build, grq, nsMatch, rq, rec, adm, resp, dirty, ops, budget>>

\* absent managed quota object
NoRQ == [present |-> FALSE, specHard |-> EmptyRL, statusHard |-> EmptyRL,
         used |-> EmptyRL]

EmptyStatus == [active |-> FALSE, namespaces |-> <<>>, size |-> 0,
                quota |-> [i \in {} |-> 0]]

IdleRec == [pc |-> "idle", inst |-> [rv |-> 0, active |-> FALSE,
                                      items |-> [i \in {} |-> 0],
                                      status |-> EmptyStatus],
            nss |-> <<>>, sel |-> <<>>, syncErr |-> FALSE, errAt |-> "none",
            result |-> "none", again |-> FALSE,
            del |-> <<>>, next |-> "none", delPc |-> "read", delOld |-> NoRQ,
            delSnap |-> 0, delAttempts |-> 0]

\* a free admission slot, and the answer before any request completed
NoAdm == [kind |-> "none", n |-> "a", i |-> "pods", old |-> NoRQ, new |-> NoRQ,
          pc |-> "read", snap |-> 0, newStatus |-> EmptyStatus,
          patched |-> NoRQ, attempts |-> 0, parent |-> "none",
          overflow |-> FALSE]
NoResp == [kind |-> "none", n |-> "a", i |-> "pods", result |-> "none",
           parent |-> "none", overflow |-> FALSE, wrote |-> FALSE,
           attempts |-> 0, verb |-> "none", user |-> "none",
           handlers |-> {}, labels |-> {}, space |-> EmptyRL,
           used |-> EmptyRL, given |-> <<>>, cluster |-> <<>>,
           names |-> <<>>]

Created ==
  /\ build \in Builds
  /\ \E h \in HardChoices :
       grq = [exists |-> TRUE, rv |-> 1, active |-> TRUE,
              items |-> [i \in {"pods"} |-> One("pods", h)],
              status |-> EmptyStatus]
  /\ nsMatch = [n \in Namespaces |-> TRUE]
  /\ rq = [n \in Namespaces |-> [i \in Items |-> NoRQ]]
  /\ rec = IdleRec
  /\ adm = [k \in 1..MaxInflight |-> NoAdm]
  /\ resp = NoResp
  /\ dirty = TRUE
  /\ ops = 0

Init == Created /\ budget = MaxOps

\* the same start with the budget of the runs without admission requests
InitChanges == Created /\ budget = MaxChanges

\* ------------------------------------------------------------- API server
\* Status().Update that passed the resourceVersion check: an update that
\* changes nothing is not stored and keeps the resourceVersion
Commit(g, status) ==
  IF status = g.status THEN g ELSE [g EXCEPT !.status = status, !.rv = @ + 1]

\* GetMatchingGlobalQuotaNamespaces / the selector loop of Manager.Reconcile:
\* names of the selected namespaces, each once, in List order
GetMatchingGlobalQuotaNamespaces == SelectSeq(NsOrder, LAMBDA n : nsMatch[n])

\* ------------------------------------------------------- deletion handler
\* a plausible slip: the difference is stored without the clamp at 0
OnDelete_NoClamp(g, i, old) ==
  IF ~g.exists THEN g
  ELSE IF i \notin DOMAIN g.status.quota THEN g
  ELSE LET tenantUsed == g.status.quota[i].used
           newUsed == [resourceName \in DOMAIN tenantUsed |->
                         tenantUsed[resourceName] - Val(old.used, resourceName)]
       IN Commit(g, [g.status EXCEPT !.quota[i].used = newUsed])

\* deletionHandler.OnDelete, the body of its retry closure on the GRQ g it
\* fetched, for the deleted object old of item i: the GRQ it hands to
\* Status().Update
OnDelete(g, i, old) ==
  IF ~g.exists THEN g
  ELSE IF i \notin DOMAIN g.status.quota THEN g
  ELSE LET tenantUsed == g.status.quota[i].used
           newUsed == [resourceName \in DOMAIN tenantUsed |->
                         IF Has(old.used, resourceName)
                         THEN LET globalUsage == tenantUsed[resourceName]
                                                 - old.used[resourceName]
                              IN IF globalUsage < 0 THEN 0 ELSE globalUsage
                         ELSE tenantUsed[resourceName]]
       IN Commit(g, [g.status EXCEPT !.quota[i].used = newUsed])

\* the elements of a finite set of items as a sequence (map iteration order
\* does not influence the result of the loops that use it)
RECURSIVE SetToSeq(_)
SetToSeq(S) == IF S = {} THEN <<>>
               ELSE LET x == CHOOSE y \in S : TRUE
                    IN <<x>> \o SetToSeq(S \ {x})

\* <<n, i>> for every n of the sequence nsSeq and every i of the set itemSet
RECURSIVE PairsOf(_, _)
PairsOf(nsSeq, itemSet) ==
  IF nsSeq = <<>> THEN <<>>
  ELSE LET its == SetToSeq(itemSet)
       IN [k \in 1..Len(its) |-> <<Head(nsSeq), its[k]>>]
          \o PairsOf(Tail(nsSeq), itemSet)

\* ---------------------------------------------------------------- reconciler
Snapshot(g) == [rv |-> g.rv, active |-> g.active, items |-> g.items,
                status |-> g.status]

\* Manager.Reconcile, r.Get of the instance: a queued request is taken; a GRQ
\* that is gone ends the reconcile without error
\* (again records that the reconcile before this one returned no error)
RecGet ==
  /\ rec.pc = "idle"
  /\ dirty
  /\ dirty' = FALSE
  /\ rec' = IF grq.exists
            THEN [IdleRec EXCEPT !.pc = "updateQuotaStatus",
                                 !.inst = Snapshot(grq),
                                 !.again = (rec.result = "ok")]
            ELSE [IdleRec EXCEPT !.result = "ok"]
  /\ UNCHANGED <<build, grq, nsMatch, rq, adm, resp, ops, budget>>

\* Manager.updateQuotaStatus (status.active follows spec.active on the latest
\* object), the !Spec.Active return and the selector loop of Manager.Reconcile
RecUpdateQuotaStatus ==
  /\ rec.pc = "updateQuotaStatus"
  /\ IF ~grq.exists
     THEN /\ rec' = [IdleRec EXCEPT !.result = "error"]
          /\ dirty' = TRUE
          /\ grq' = grq
     ELSE /\ grq' = Commit(grq, [grq.status EXCEPT !.active = grq.active])
          /\ dirty' = (dirty \/ grq'.rv # grq.rv)
          /\ rec' = IF ~rec.inst.active
                    THEN [IdleRec EXCEPT !.result = "ok"]
                    ELSE [rec EXCEPT !.pc = "syncStatus",
                                     !.nss = GetMatchingGlobalQuotaNamespaces,
                                     !.sel = GetMatchingGlobalQuotaNamespaces]
  /\ UNCHANGED <<build, nsMatch, rq, adm, resp, ops, budget>>

\* the same step when selector.GetMatchingNamespaces returns an error: the
\* entry is passed over and no namespace is collected (sel keeps the
\* namespaces that satisfy the entry at this moment); the failures count as
\* operations of the orchestrator
RecSelectorFails ==
  /\ rec.pc = "updateQuotaStatus"
  /\ ops < budget
  /\ grq.exists
  /\ rec.inst.active
  /\ grq' = Commit(grq, [grq.status EXCEPT !.active = grq.active])
  /\ dirty' = (dirty \/ grq'.rv # grq.rv)
  /\ rec' = [rec EXCEPT !.pc = "syncStatus", !.nss = <<>>,
                        !.sel = GetMatchingGlobalQuotaNamespaces]
  /\ ops' = ops + 1
  /\ UNCHANGED <<build, nsMatch, rq, adm, resp, budget>>

\* Manager.syncResourceQuotas, first part: a status row is added for every
\* declared item that has none, and the status of the instance is written
\* when this changed it.  The write carries the resourceVersion of the
\* instance read by RecGet; its failure ends syncResourceQuotas with an error.
InitStatusQuota(inst) ==
  [inst.status EXCEPT !.quota =
     [index \in (DOMAIN inst.status.quota) \cup (DOMAIN inst.items) |->
        IF index \in DOMAIN inst.status.quota
        THEN inst.status.quota[index]
        ELSE [hard |-> inst.items[index], used |-> EmptyRL]]]

RecSyncStatus ==
  /\ rec.pc = "syncStatus"
  /\ LET st == InitStatusQuota(rec.inst)
     IN IF st = rec.inst.status
        THEN /\ rec' = [rec EXCEPT !.pc = "orphans"]
             /\ UNCHANGED <<grq, dirty>>
        ELSE IF grq.exists /\ grq.rv = rec.inst.rv
        THEN /\ grq' = Commit(grq, st)
             /\ dirty' = TRUE
             /\ rec' = [rec EXCEPT !.pc = "orphans", !.inst.status = st,
                                   !.inst.rv = grq'.rv]
        ELSE /\ rec' = [rec EXCEPT !.pc = "statusNamespaces",
                                   !.syncErr = TRUE, !.errAt = "status"]
             /\ UNCHANGED <<grq, dirty>>
  /\ UNCHANGED <<build, nsMatch, rq, adm, resp, ops, budget>>

\* the objects among the sequence 'pairs' of <<namespace, item>> that exist
Existing(q, pairs) == SelectSeq(pairs, LAMBDA p : q[p[1]][p[2]].present)

\* the status held in memory without the rows of the items that left the spec
WithoutOrphans(inst) ==
  [index \in (DOMAIN inst.status.quota) \cap (DOMAIN inst.items) |->
     inst.status.quota[index]]

\* a plausible slip: the rows of the orphaned items leave the status before
\* their objects are deleted, and the deletion is skipped
RecOrphans_RowsFirst ==
  /\ rec.pc = "orphans"
  /\ rec' = [rec EXCEPT !.pc = "gc",
                        !.inst.status.quota = WithoutOrphans(rec.inst)]
  /\ UNCHANGED <<build, grq, nsMatch, rq, adm, resp, dirty, ops, budget>>

\* Manager.syncResourceQuotas, removal of the items that are in the status
\* but no longer in the spec: their objects are listed in the matching
\* namespaces and in status.namespaces and deleted one after the other,
\* then the row leaves the status held in memory
RecOrphans ==
  /\ rec.pc = "orphans"
  /\ LET orphaned == (DOMAIN rec.inst.status.quota) \ (DOMAIN rec.inst.items)
         todo == Existing(rq, PairsOf(rec.nss \o rec.inst.status.namespaces,
                                      orphaned))
     IN rec' = IF todo = <<>>
               THEN [rec EXCEPT !.pc = "gc",
                                !.inst.status.quota = WithoutOrphans(rec.inst)]
               ELSE [rec EXCEPT !.pc = "delete", !.del = todo, !.next = "gc",
                                !.delOld = NoRQ, !.delAttempts = 0]
  /\ UNCHANGED <<build, grq, nsMatch, rq, adm, resp, dirty, ops, budget>>

\* Manager.syncResourceQuotas, garbage collection: Manager.gcResourceQuotas
\* for every namespace of status.namespaces that no longer matches; it
\* deletes the object of every item of the spec
RecGC ==
  /\ rec.pc = "gc"
  /\ LET gone == SelectSeq(rec.inst.status.namespaces,
                           LAMBDA n : n \notin Range(rec.nss))
         todo == Existing(rq, PairsOf(gone, DOMAIN rec.inst.items))
     IN rec' = IF todo = <<>>
               THEN [rec EXCEPT !.pc = "fanOut"]
               ELSE [rec EXCEPT !.pc = "delete", !.del = todo,
                                !.next = "fanOut", !.delOld = NoRQ,
                                !.delAttempts = 0]
  /\ UNCHANGED <<build, grq, nsMatch, rq, adm, resp, dirty, ops, budget>>

\* the reconcile after Client.Delete of the first object of rec.del
\* returned without error, the objects being q then: the next object that
\* still exists is deleted, or the reconcile goes on after the loop
Deleted(r, q) ==
  LET rest == Existing(q, Tail(r.del))
  IN IF rest # <<>>
     THEN [r EXCEPT !.del = rest, !.delPc = "read", !.delOld = NoRQ,
                    !.delSnap = 0, !.delAttempts = 0]
     ELSE IF r.next = "gc"
     THEN [r EXCEPT !.pc = "gc", !.next = "none", !.del = <<>>,
                    !.delPc = "read", !.delSnap = 0,
                    !.inst.status.quota = WithoutOrphans(r.inst)]
     ELSE [r EXCEPT !.pc = "fanOut", !.next = "none", !.del = <<>>,
                    !.delPc = "read", !.delSnap = 0]

\* the reconcile after Client.Delete returned an error: syncResourceQuotas
\* returns it
DeleteFailed(r) ==
  [r EXCEPT !.pc = "statusNamespaces", !.syncErr = TRUE,
            !.errAt = "delete", !.del = <<>>,
            !.next = "none", !.delPc = "read", !.delOld = NoRQ,
            !.delSnap = 0, !.delAttempts = 0]

\* a plausible slip: every error of GetGlobalQuota, NotFound included, is
\* answered with an errored response
RecDelete_AbsentIsError ==
  /\ rec.pc = "delete"
  /\ rec.delPc = "read"
  /\ LET n == Head(rec.del)[1]
         i == Head(rec.del)[2]
         removed == [rq EXCEPT ![n][i] = NoRQ]
     IN IF ~rq[n][i].present /\ rec.delAttempts = 0
        THEN /\ rec' = DeleteFailed(rec)
             /\ UNCHANGED <<rq, dirty>>
        ELSE IF ~grq.exists
        THEN /\ rec' = DeleteFailed(rec)
             /\ UNCHANGED <<rq, dirty>>
        ELSE IF i \notin DOMAIN grq.status.quota
        THEN /\ rq' = removed
             /\ rec' = IF ~rq[n][i].present THEN DeleteFailed(rec)
                       ELSE Deleted([rec EXCEPT !.delOld =
                                       IF rec.delAttempts = 0 THEN rq[n][i]
                                                              ELSE rec.delOld],
                                    removed)
             /\ dirty' = TRUE
        ELSE /\ rec' = [rec EXCEPT !.delPc = "write", !.delSnap = grq.rv,
                          !.delOld = IF rec.delAttempts = 0 THEN rq[n][i]
                                                            ELSE rec.delOld]
             /\ UNCHANGED <<rq, dirty>>
  /\ UNCHANGED <<build, grq, nsMatch, adm, resp, ops, budget>>

\* Client.Delete of the first object of rec.del, served by
\* deletionHandler.OnDelete up to its status write: GetGlobalQuota (a GRQ
\* that is gone admits the DELETE), then the Get of the retry closure and
\* the lookup of the item's row (no row admits the DELETE).  For an object
\* that someone else removed since the reconciler read it Client.Delete
\* returns NotFound, an error like any other for the caller
RecDelete ==
  /\ rec.pc = "delete"
  /\ rec.delPc = "read"
  /\ LET n == Head(rec.del)[1]
         i == Head(rec.del)[2]
         removed == [rq EXCEPT ![n][i] = NoRQ]
     IN IF ~rq[n][i].present /\ rec.delAttempts = 0
        THEN /\ rec' = DeleteFailed(rec)
             /\ UNCHANGED <<rq, dirty>>
        ELSE IF ~grq.exists
        THEN IF rec.delAttempts = 0
             THEN /\ rq' = removed
                  /\ rec' = IF ~rq[n][i].present THEN DeleteFailed(rec)
                            ELSE Deleted([rec EXCEPT !.delOld = rq[n][i]],
                                         removed)
                  /\ dirty' = TRUE
             ELSE /\ rec' = DeleteFailed(rec)
                  /\ UNCHANGED <<rq, dirty>>
        ELSE IF i \notin DOMAIN grq.status.quota
        THEN /\ rq' = removed
             /\ rec' = IF ~rq[n][i].present THEN DeleteFailed(rec)
                       ELSE Deleted([rec EXCEPT !.delOld =
                                       IF rec.delAttempts = 0 THEN rq[n][i]
                                                              ELSE rec.delOld],
                                    removed)
             /\ dirty' = TRUE
        ELSE /\ rec' = [rec EXCEPT !.delPc = "write", !.delSnap = grq.rv,
                          !.delOld = IF rec.delAttempts = 0 THEN rq[n][i]
                                                            ELSE rec.delOld]
             /\ UNCHANGED <<rq, dirty>>
  /\ UNCHANGED <<build, grq, nsMatch, adm, resp, ops, budget>>

\* the Status().Update of deletionHandler.OnDelete inside
\* retry.RetryOnConflict: a stale resourceVersion starts the next attempt
\* until the attempts are used up; after the write the DELETE is admitted
\* and the object is removed
RecDeleteWrite ==
  /\ rec.pc = "delete"
  /\ rec.delPc = "write"
  /\ LET n == Head(rec.del)[1]
         i == Head(rec.del)[2]
         removed == [rq EXCEPT ![n][i] = NoRQ]
     IN IF grq.exists /\ grq.rv = rec.delSnap
        THEN /\ grq' = OnDelete(grq, i, rec.delOld)
             /\ rq' = removed
             /\ rec' = IF ~rq[n][i].present THEN DeleteFailed(rec)
                       ELSE Deleted(rec, removed)
             /\ dirty' = TRUE
        ELSE IF grq.exists /\ rec.delAttempts + 1 < RetrySteps
        THEN /\ rec' = [rec EXCEPT !.delPc = "read", !.delAttempts = @ + 1]
             /\ UNCHANGED <<grq, rq, dirty>>
        ELSE /\ rec' = DeleteFailed(rec)
             /\ UNCHANGED <<grq, rq, dirty>>
  /\ UNCHANGED <<build, nsMatch, adm, resp, ops, budget>>

\* Manager.syncResourceQuota, the mutate function of CreateOrUpdate: labels,
\* scopes and owner are fixed; spec.hard becomes GetAggregatedQuotaSpace of
\* the instance with the status.used of the object as stored
SyncedRQ(inst, index, target) ==
  [present |-> TRUE,
   specHard |-> GetAggregatedQuotaSpace(inst, index, target.used).space,
   statusHard |-> target.statusHard,
   used |-> target.used]

\* the objects after Manager.syncResourceQuota ran for the namespaces of the
\* sequence todo (the goroutines of the fan-out touch disjoint objects)
RECURSIVE FanOut(_, _, _)
FanOut(inst, q, todo) ==
  IF todo = <<>> THEN q
  ELSE LET namespace == Head(todo)
       IN FanOut(inst,
                 [q EXCEPT ![namespace] =
                    [index \in Items |->
                       IF index \in DOMAIN inst.items
                       THEN SyncedRQ(inst, index, q[namespace][index])
                       ELSE q[namespace][index]]],
                 Tail(todo))

\* Manager.syncResourceQuotas, the fan-out over the matching namespaces up
\* to group.Wait()
RecFanOut ==
  /\ rec.pc = "fanOut"
  /\ rq' = FanOut(rec.inst, rq, rec.nss)
  /\ dirty' = (dirty \/ rq' # rq)
  /\ rec' = [rec EXCEPT !.pc = "statusNamespaces"]
  /\ UNCHANGED <<build, grq, nsMatch, adm, resp, ops, budget>>

\* the fan-out when Manager.syncResourceQuota fails for the namespaces of
\* the set bad (CreateOrUpdate returns an error, e.g. for a namespace that is
\* being removed): the other goroutines finish, group.Wait() returns the
\* error and syncResourceQuotas hands it to Manager.Reconcile
RecFanOutFails ==
  /\ rec.pc = "fanOut"
  /\ \E bad \in (SUBSET Range(rec.nss)) \ {{}} :
       rq' = FanOut(rec.inst, rq, SelectSeq(rec.nss, LAMBDA n : n \notin bad))
  /\ dirty' = (dirty \/ rq' # rq)
  /\ rec' = [rec EXCEPT !.pc = "statusNamespaces", !.syncErr = TRUE,
                        !.errAt = "fanOut"]
  /\ UNCHANGED <<build, grq, nsMatch, adm, resp, ops, budget>>

\* Manager.statusNamespaces and the return of Manager.Reconcile: the error
\* of syncResourceQuotas is logged and then overwritten by the error of
\* statusNamespaces
RecStatusNamespaces ==
  /\ rec.pc = "statusNamespaces"
  /\ IF ~grq.exists
     THEN /\ rec' = [IdleRec EXCEPT !.result = "error",
                                    !.syncErr = rec.syncErr,
                                    !.errAt = rec.errAt]
          /\ dirty' = TRUE
          /\ grq' = grq
     ELSE /\ grq' = Commit(grq, AssignNamespaces(grq.status,
                                              NamespaceObjects(rec.nss)))
          /\ dirty' = (dirty \/ grq'.rv # grq.rv)
          /\ rec' = [IdleRec EXCEPT !.result = "ok", !.syncErr = rec.syncErr,
                                    !.errAt = rec.errAt]
  /\ UNCHANGED <<build, nsMatch, rq, adm, resp, ops, budget>>

Reconcile ==
  \/ RecGet
  \/ RecUpdateQuotaStatus
  \/ RecSyncStatus
  \/ RecOrphans
  \/ RecGC
  \/ RecDelete
  \/ RecDeleteWrite
  \/ RecFanOut
  \/ RecStatusNamespaces

\* ------------------------------------------------------ admission requests
Busy(n, i) == \E k \in 1..MaxInflight :
                adm[k].kind # "none" /\ adm[k].n = n /\ adm[k].i = i
HasFree == \E k \in 1..MaxInflight : adm[k].kind = "none"
FreeSlot == CHOOSE k \in 1..MaxInflight :
              /\ adm[k].kind = "none"
              /\ \A j \in 1..MaxInflight : adm[j].kind = "none" => k <= j

\* quota enforcement of the orchestrator: the usage of a namespace grows only
\* up to the cap the object grants (spec.hard)
QuotaAdmits(old, r, u) ==
  \/ u <= Val(old.used, r)
  \/ ~Has(old.specHard, r)
  \/ u <= old.specHard[r]

\* the orchestrator publishes a new status.used of a managed quota object:
\* UPDATE request served by statusHandler.OnUpdate
UsageUpdate(n, i, u) ==
  /\ ops < budget
  /\ rq[n][i].present
  /\ ~Busy(n, i)
  /\ HasFree
  /\ u # Val(rq[n][i].used, "pods")
  /\ QuotaAdmits(rq[n][i], "pods", u)
  /\ adm' = [adm EXCEPT ![FreeSlot] =
               [NoAdm EXCEPT !.kind = "status", !.n = n, !.i = i,
                  !.old = rq[n][i],
                  !.new = [rq[n][i] EXCEPT !.used = One("pods", u)],
                  !.patched = [rq[n][i] EXCEPT !.used = One("pods", u)]]]
  /\ ops' = ops + 1
  /\ UNCHANGED <<build, grq, nsMatch, rq, rec, resp, dirty, budget>>

\* a new status.hard of a managed quota object is requested: UPDATE request
\* served by the spec mutator (statusHandler.validate)
HardUpdate(n, i, h) ==
  /\ ops < budget
  /\ rq[n][i].present
  /\ ~Busy(n, i)
  /\ HasFree
  /\ h # Val(rq[n][i].statusHard, "pods")
  /\ adm' = [adm EXCEPT ![FreeSlot] =
               [NoAdm EXCEPT !.kind = "spec", !.n = n, !.i = i,
                  !.old = rq[n][i],
                  !.new = [rq[n][i] EXCEPT !.statusHard = One("pods", h)],
                  !.patched = [rq[n][i] EXCEPT !.statusHard = One("pods", h)]]]
  /\ ops' = ops + 1
  /\ UNCHANGED <<build, grq, nsMatch, rq, rec, resp, dirty, budget>>

\* usage change of resource r carried by the request
Diff(old, new, r) ==
  (IF Has(new.used, r) THEN new.used[r] ELSE Val(old.used, r)) - Val(old.used, r)

\* the usage increase of the request exceeds the remaining space of the item
Overflows(g, i, old, new) ==
  /\ g.exists
  /\ i \in DOMAIN g.status.quota
  /\ \E r \in DOMAIN GetQuotaSpace(g, i).space :
       Diff(old, new, r) > GetQuotaSpace(g, i).space[r]

ParentOf(g) == IF ~g.exists THEN "absent"
               ELSE IF ~g.active THEN "inactive" ELSE "active"

\* the API server stores the admitted object (the object may be gone): the
\* request served by the status mutator carries the status of the object,
\* the request served by the spec mutator its hard limits
Persist(q, k, obj) ==
  LET n == adm[k].n
      i == adm[k].i
  IN IF ~q[n][i].present THEN q
     ELSE IF adm[k].kind = "status"
     THEN [q EXCEPT ![n][i].used = obj.used, ![n][i].statusHard = obj.statusHard]
     ELSE [q EXCEPT ![n][i].specHard = obj.specHard,
                    ![n][i].statusHard = obj.statusHard]

\* the parent GRQ and the overflow of the request as the handler saw them
\* when it was called (a handler that reached its status write has recorded
\* them in its slot)
Seen(k) == IF adm[k].parent = "none" THEN ParentOf(grq) ELSE adm[k].parent
SeenOverflow(k) ==
  IF adm[k].parent = "none"
  THEN Overflows(grq, adm[k].i, adm[k].old, adm[k].new)
  ELSE adm[k].overflow

\* the request of slot k is answered
Answer(k, result, wrote) ==
  /\ resp' = [kind |-> adm[k].kind, n |-> adm[k].n, i |-> adm[k].i,
              result |-> result, parent |-> Seen(k),
              overflow |-> SeenOverflow(k), wrote |-> wrote,
              attempts |-> adm[k].attempts, verb |-> "UPDATE",
              user |-> "none", handlers |-> {}, labels |-> {},
              space |-> EmptyRL, used |-> EmptyRL, given |-> <<>>,
              cluster |-> <<>>, names |-> <<>>]
  /\ adm' = [adm EXCEPT ![k] = NoAdm]

\* ----------------------------------------- status mutator, calculation.go
\* statusHandler.calculate of pkg/webhook/globalquota/calculation.go: the
\* function returns an errored response before it decodes the request
calculate(k) ==
  /\ adm[k].kind = "status"
  /\ build = "head"
  /\ Answer(k, "errored", FALSE)
  /\ UNCHANGED <<build, grq, nsMatch, rq, rec, dirty, ops, budget>>

\* ------------------------------------ status mutator, revision without retry
\* the loop over the available space of statusHandler.calculate (revision
\* without retry): the used row of the item after the loop
CalculatePlainUsed(g, i, old, new) ==
  LET availableSpace == GetQuotaSpace(g, i).space
      tenantUsed == g.status.quota[i].used
      touched == {r \in DOMAIN availableSpace : Diff(old, new, r) # 0}
  IN [resourceName \in (DOMAIN tenantUsed) \cup touched |->
        IF resourceName \in touched
        THEN LET avail == availableSpace[resourceName]
                 diff == Diff(old, new, resourceName)
                 globalUsage == Val(tenantUsed, resourceName)
             IN IF diff > 0
                THEN (IF avail < diff THEN globalUsage + avail
                                      ELSE globalUsage + diff)
                ELSE (IF globalUsage + diff < 0 THEN 0
                                                ELSE globalUsage + diff)
        ELSE tenantUsed[resourceName]]

\* the status.hard of the emitted object after the same loop: an increase
\* sets it to the old usage plus what was granted
CalculatePlainHard(g, i, old, quota) ==
  LET availableSpace == GetQuotaSpace(g, i).space
      set == {r \in DOMAIN availableSpace :
                ~Has(quota.used, r) \/ Diff(old, quota, r) > 0}
  IN [resourceName \in (DOMAIN quota.statusHard) \cup set |->
        IF resourceName \in set
        THEN (IF ~Has(quota.used, resourceName) THEN 0
              ELSE LET avail == availableSpace[resourceName]
                       diff == Diff(old, quota, resourceName)
                       oldAllocated == Val(old.used, resourceName)
                   IN IF avail < diff THEN oldAllocated + avail
                                      ELSE oldAllocated + diff)
        ELSE quota.statusHard[resourceName]]

\* statusHandler.calculate (revision without retry) up to the status write
calculatePlain(k) ==
  /\ adm[k].kind = "status"
  /\ build = "plain"
  /\ adm[k].pc = "read"
  /\ IF ~grq.exists
     THEN /\ Answer(k, "errored", FALSE)
          /\ UNCHANGED <<rq, dirty>>
     ELSE IF ~grq.active \/ adm[k].i \notin DOMAIN grq.status.quota
     THEN /\ Answer(k, "allowed", FALSE)
          /\ rq' = Persist(rq, k, adm[k].new)
          /\ dirty' = (dirty \/ rq' # rq)
     ELSE /\ adm' = [adm EXCEPT ![k].pc = "write", ![k].snap = grq.rv,
                       ![k].parent = Seen(k), ![k].overflow = SeenOverflow(k),
                       ![k].newStatus =
                          [grq.status EXCEPT !.quota[adm[k].i].used =
                             CalculatePlainUsed(grq, adm[k].i, adm[k].old,
                                                adm[k].new)],
                       ![k].patched =
                          [adm[k].patched EXCEPT !.statusHard =
                             CalculatePlainHard(grq, adm[k].i, adm[k].old,
                                                adm[k].patched)]]
          /\ UNCHANGED <<rq, dirty, resp>>
  /\ UNCHANGED <<build, grq, nsMatch, rec, ops, budget>>

\* the single Status().Update of that revision: its error is logged and
\* dropped, the patched object is admitted either way
calculatePlainWrite(k) ==
  /\ adm[k].kind = "status"
  /\ build = "plain"
  /\ adm[k].pc = "write"
  /\ IF grq.exists /\ grq.rv = adm[k].snap
     THEN /\ grq' = Commit(grq, adm[k].newStatus)
          /\ Answer(k, "patched", TRUE)
     ELSE /\ grq' = grq
          /\ Answer(k, "patched", FALSE)
  /\ rq' = Persist(rq, k, adm[k].patched)
  /\ dirty' = (dirty \/ rq' # rq \/ grq' # grq)
  /\ UNCHANGED <<build, nsMatch, rec, ops, budget>>

\* --------------------------------------- status mutator, retrying revision
\* the loop over the available space of statusHandler.calculate (retrying
\* revision): the used row of the item after the loop
CalculateRetryUsed(g, i, old, new) ==
  LET availableSpace == GetQuotaSpace(g, i).space
      tenantUsed == g.status.quota[i].used
      touched == {r \in DOMAIN availableSpace : Diff(old, new, r) # 0}
  IN [resourceName \in (DOMAIN tenantUsed) \cup touched |->
        IF resourceName \in touched
        THEN LET avail == availableSpace[resourceName]
                 diff == Diff(old, new, resourceName)
                 globalUsage == Val(tenantUsed, resourceName)
             IN IF diff > 0
                THEN (IF avail < diff THEN globalUsage + avail
                                      ELSE globalUsage + diff)
                ELSE (IF globalUsage - diff < 0 THEN 0
                                                ELSE globalUsage - diff)
        ELSE tenantUsed[resourceName]]

\* the status.hard of the emitted object after the same loop
CalculateRetryHard(g, i, quota) ==
  LET availableSpace == GetQuotaSpace(g, i).space
  IN [resourceName \in (DOMAIN quota.statusHard) \cup (DOMAIN availableSpace) |->
        IF resourceName \in DOMAIN availableSpace
        THEN (IF Has(quota.used, resourceName)
              THEN availableSpace[resourceName] ELSE 0)
        ELSE quota.statusHard[resourceName]]

\* statusHandler.calculate (retrying revision) up to the status write:
\* GetGlobalQuota and the active check on the first attempt, then the body
\* of the retry closure on the GRQ it fetched
calculateRetry(k) ==
  /\ adm[k].kind = "status"
  /\ build = "retry"
  /\ adm[k].pc = "read"
  /\ IF ~grq.exists
     THEN /\ Answer(k, "errored", FALSE)
          /\ UNCHANGED <<rq, dirty>>
     ELSE IF adm[k].attempts = 0 /\ ~grq.active
     THEN /\ Answer(k, "allowed", FALSE)
          /\ rq' = Persist(rq, k, adm[k].new)
          /\ dirty' = (dirty \/ rq' # rq)
     ELSE IF adm[k].i \notin DOMAIN grq.status.quota
     THEN /\ Answer(k, "patched", FALSE)
          /\ rq' = Persist(rq, k, adm[k].patched)
          /\ dirty' = (dirty \/ rq' # rq)
     ELSE /\ adm' = [adm EXCEPT ![k].pc = "write", ![k].snap = grq.rv,
                       ![k].parent = Seen(k), ![k].overflow = SeenOverflow(k),
                       ![k].newStatus =
                          [grq.status EXCEPT !.quota[adm[k].i].used =
                             CalculateRetryUsed(grq, adm[k].i, adm[k].old,
                                                adm[k].new)],
                       ![k].patched =
                          [adm[k].patched EXCEPT !.statusHard =
                             CalculateRetryHard(grq, adm[k].i, adm[k].patched)]]
          /\ UNCHANGED <<rq, dirty, resp>>
  /\ UNCHANGED <<build, grq, nsMatch, rec, ops, budget>>

\* a plausible slip: the write is stored whatever the stored
\* resourceVersion is
RetryWrite_Unconditioned(k) ==
  /\ adm[k].pc = "write"
  /\ grq.exists
  /\ grq' = [grq EXCEPT !.status = adm[k].newStatus, !.rv = @ + 1]
  /\ Answer(k, "patched", TRUE)
  /\ rq' = Persist(rq, k, adm[k].patched)
  /\ dirty' = TRUE
  /\ UNCHANGED <<build, nsMatch, rec, ops, budget>>

\* the Status().Update of an admission handler inside retry.RetryOnConflict:
\* a stale resourceVersion is a conflict and starts the next attempt until
\* the attempts are used up
RetryWrite(k) ==
  /\ adm[k].pc = "write"
  /\ IF ~grq.exists
     THEN /\ Answer(k, "errored", FALSE)
          /\ UNCHANGED <<grq, rq, dirty>>
     ELSE IF grq.rv = adm[k].snap
     THEN /\ grq' = Commit(grq, adm[k].newStatus)
          /\ Answer(k, "patched", TRUE)
          /\ rq' = Persist(rq, k, adm[k].patched)
          /\ dirty' = (dirty \/ rq' # rq \/ grq' # grq)
     ELSE IF adm[k].attempts + 1 < RetrySteps
     THEN /\ adm' = [adm EXCEPT ![k].pc = "read", ![k].attempts = @ + 1]
          /\ UNCHANGED <<grq, rq, dirty, resp>>
     ELSE /\ Answer(k, "errored", FALSE)
          /\ UNCHANGED <<grq, rq, dirty>>
  /\ UNCHANGED <<build, nsMatch, rec, ops, budget>>

calculateRetryWrite(k) ==
  /\ adm[k].kind = "status"
  /\ build = "retry"
  /\ RetryWrite(k)

\* ------------------------------------------------------------ spec mutator
\* a plausible slip: the requested increase is granted without the
\* comparison with the available space
GrantedIncrease_Unclamped(g, i, old, new, r) ==
  (IF Has(new.statusHard, r) THEN new.statusHard[r] ELSE Val(old.statusHard, r))
  - Val(old.statusHard, r)

\* increase granted by statusHandler.validate for resource r
GrantedIncrease(g, i, old, new, r) ==
  LET oldLimit == Val(old.statusHard, r)
      newLimit == IF Has(new.statusHard, r) THEN new.statusHard[r] ELSE oldLimit
      requestedIncrease == newLimit - oldLimit
      availableSpace == GetQuotaSpace(g, i).space[r]
  IN IF requestedIncrease > availableSpace THEN availableSpace
                                           ELSE requestedIncrease

\* statusHandler.validate up to the status write
validate(k) ==
  /\ adm[k].kind = "spec"
  /\ adm[k].pc = "read"
  /\ IF ~grq.exists
     THEN /\ Answer(k, "errored", FALSE)
          /\ UNCHANGED <<rq, dirty>>
     ELSE IF adm[k].attempts = 0 /\ ~grq.active
     THEN /\ Answer(k, "allowed", FALSE)
          /\ rq' = Persist(rq, k, adm[k].new)
          /\ dirty' = (dirty \/ rq' # rq)
     ELSE IF adm[k].i \notin DOMAIN grq.status.quota
     THEN /\ Answer(k, "patched", FALSE)
          /\ rq' = Persist(rq, k, adm[k].patched)
          /\ dirty' = (dirty \/ rq' # rq)
     ELSE LET i == adm[k].i
              space == GetQuotaSpace(grq, i).space
              tenantUsed == grq.status.quota[i].used
              final(r) == Val(adm[k].old.statusHard, r)
                          + GrantedIncrease(grq, i, adm[k].old, adm[k].patched, r)
          IN /\ adm' = [adm EXCEPT ![k].pc = "write", ![k].snap = grq.rv,
                       ![k].parent = Seen(k), ![k].overflow = SeenOverflow(k),
                          ![k].newStatus =
                             [grq.status EXCEPT !.quota[i].used =
                                [r \in (DOMAIN tenantUsed) \cup (DOMAIN space) |->
                                   IF r \in DOMAIN space
                                   THEN Val(tenantUsed, r)
                                        + GrantedIncrease(grq, i, adm[k].old,
                                                          adm[k].patched, r)
                                   ELSE tenantUsed[r]]],
                          ![k].patched =
                             [adm[k].patched EXCEPT
                                !.specHard =
                                   [r \in (DOMAIN adm[k].patched.specHard)
                                          \cup (DOMAIN space) |->
                                      IF r \in DOMAIN space THEN final(r)
                                      ELSE adm[k].patched.specHard[r]],
                                !.statusHard =
                                   [r \in (DOMAIN adm[k].patched.statusHard)
                                          \cup (DOMAIN space) |->
                                      IF r \in DOMAIN space THEN final(r)
                                      ELSE adm[k].patched.statusHard[r]]]]
             /\ UNCHANGED <<rq, dirty, resp>>
  /\ UNCHANGED <<build, grq, nsMatch, rec, ops, budget>>

validateWrite(k) ==
  /\ adm[k].kind = "spec"
  /\ RetryWrite(k)

\* ------------------------------------------------ users of the cluster
\* a namespace enters or leaves the selection (its labels or the selectors
\* of the GRQ change); the watch queues a reconcile
ToggleMatch(n) ==
  /\ ops < budget
  /\ nsMatch' = [nsMatch EXCEPT ![n] = ~@]
  /\ dirty' = TRUE
  /\ ops' = ops + 1
  /\ UNCHANGED <<build, grq, rq, rec, adm, resp, budget>>

\* the operator changes the spec of the GRQ
UpdateSpec(active, items) ==
  /\ ops < budget
  /\ grq.exists
  /\ <<active, items>> # <<grq.active, grq.items>>
  /\ grq' = [grq EXCEPT !.active = active, !.items = items, !.rv = @ + 1]
  /\ dirty' = TRUE
  /\ ops' = ops + 1
  /\ UNCHANGED <<build, nsMatch, rq, rec, adm, resp, budget>>

SetActive(b) == UpdateSpec(b, grq.items)

AddItem(i, h) ==
  /\ i \notin DOMAIN grq.items
  /\ UpdateSpec(grq.active,
                [x \in (DOMAIN grq.items) \cup {i} |->
                   IF x = i THEN One("pods", h) ELSE grq.items[x]])

RemoveItem(i) ==
  /\ i \in DOMAIN grq.items
  /\ UpdateSpec(grq.active, [x \in (DOMAIN grq.items) \ {i} |-> grq.items[x]])

SetHard(i, h) ==
  /\ i \in DOMAIN grq.items
  /\ UpdateSpec(grq.active, [grq.items EXCEPT ![i] = One("pods", h)])

\* someone other than the reconciler deletes the managed object of item i
\* in namespace n (a user, or the removal of the namespace); the DELETE is
\* served by deletionHandler.OnDelete, whose write succeeds
Vanish(n, i) ==
  /\ ops < budget
  /\ rq[n][i].present
  /\ grq' = OnDelete(grq, i, rq[n][i])
  /\ rq' = [rq EXCEPT ![n][i] = NoRQ]
  /\ dirty' = TRUE
  /\ ops' = ops + 1
  /\ UNCHANGED <<build, nsMatch, rec, adm, resp, budget>>

\* the operator deletes the GRQ
DeleteGRQ ==
  /\ ops < budget
  /\ grq.exists
  /\ grq' = [grq EXCEPT !.exists = FALSE]
  /\ dirty' = TRUE
  /\ ops' = ops + 1
  /\ UNCHANGED <<build, nsMatch, rq, rec, adm, resp, budget>>

StatusAdmission ==
  \E k \in 1..MaxInflight :
    \/ calculate(k)
    \/ calculatePlain(k)
    \/ calculatePlainWrite(k)
    \/ calculateRetry(k)
    \/ calculateRetryWrite(k)

SpecAdmission ==
  \E k \in 1..MaxInflight :
    \/ validate(k)
    \/ validateWrite(k)

UsageRequests ==
  \E n \in Namespaces, i \in Items, u \in 0..MaxQty : UsageUpdate(n, i, u)

HardRequests ==
  \E n \in Namespaces, i \in Items :
    \E h \in (0..MaxQty) \cup {Val(rq[n][i].specHard, "pods")} :
      HardUpdate(n, i, h)

Membership == \E n \in Namespaces : ToggleMatch(n)

Operator ==
  \/ \E b \in BOOLEAN : SetActive(b)
  \/ \E i \in Items, h \in HardChoices : AddItem(i, h)
  \/ \E i \in Items : RemoveItem(i)
  \/ \E i \in Items, h \in HardChoices : SetHard(i, h)
  \/ DeleteGRQ

\* the whole subsystem
Next ==
  \/ Reconcile
  \/ StatusAdmission
  \/ SpecAdmission
  \/ UsageRequests
  \/ HardRequests
  \/ Membership
  \/ Operator

Spec == Init /\ [][Next]_vars

\* status-mutator admissions, deletions and reconciles on one GRQ whose spec
\* stays as created
NextUsage ==
  \/ Reconcile
  \/ StatusAdmission
  \/ UsageRequests
  \/ Membership

SpecUsage == Init /\ [][NextUsage]_vars

\* the reconciler against changes of the GRQ's spec and of the namespaces,
\* without admission requests
NextChanges ==
  \/ Reconcile
  \/ Membership
  \/ Operator

SpecChanges == InitChanges /\ [][NextChanges]_vars

\* ---------------------------------------------------------------------
\* Validators of the quota objects
\* ---------------------------------------------------------------------

\* the label syncResourceQuota sets to the name of the GRQ
\* (utils.GetTypeLabel of a GlobalResourceQuota)
ManagedByLabel == "managed-by-global-quota"

\* the label syncResourceQuota sets to the name of the item
\* (utils.GetGlobalResourceQuotaTypeLabel)
ItemLabel == "global-quota-item"

\* the label of the quota objects of a tenant, whose value is the index of
\* the quota in the tenant (capsuleutils.GetTypeLabel of a ResourceQuota)
TenantQuotaLabel == "resource-quota"

Verbs == {"CREATE", "UPDATE", "DELETE"}

\* who sends the request: req.UserInfo
Users == {"user", "controller"}

\* the two validators of quota objects, by the name of their package
Validators == {"resourcequota", "quota"}

\* the object a request names: a managed object of the GRQ, another quota
\* object of the namespace, or an object that is gone when the handler
\* looks it up
Targets == {"managed", "other", "gone"}

\* validationhandler of package resourcequota: OnCreate and OnUpdate
\* return nil, OnDelete returns the denial handle builds first
resourcequotaValidation(verb, user, labels) ==
  IF verb = "DELETE" THEN "denied" ELSE "allowed"

\* validationHandler of package quota: OnCreate returns nil, OnUpdate and
\* OnDelete fetch the object and deny where it carries the tenant's label
quotaValidation(verb, user, found, labels) ==
  IF verb = "CREATE" THEN "allowed"
  ELSE IF ~found THEN "errored"
  ELSE IF TenantQuotaLabel \in labels THEN "denied"
  ELSE "allowed"

\* the answer of one validator
Validator(h, verb, user, found, labels) ==
  IF h = "resourcequota" THEN resourcequotaValidation(verb, user, labels)
  ELSE quotaValidation(verb, user, found, labels)

\* the answer of the route: the request passes where every handler of the
\* route lets it pass
Validated(handlers, verb, user, found, labels) ==
  IF \E h \in handlers : Validator(h, verb, user, found, labels) = "errored"
  THEN "errored"
  ELSE IF \E h \in handlers : Validator(h, verb, user, found, labels) = "denied"
  THEN "denied"
  ELSE "allowed"

\* a request on a quota object of namespace n reaches the validators; the
\* handlers registered on the route are an input, and so are the labels the
\* object carries besides those of the reconciler
Validation ==
  \E n \in Namespaces, i \in Items, verb \in Verbs, user \in Users :
    \E handlers \in (SUBSET Validators) \ {{}}, target \in Targets,
       extra \in SUBSET {TenantQuotaLabel} :
      LET labels == IF target = "managed"
                    THEN {ManagedByLabel, ItemLabel} \cup extra
                    ELSE IF target = "other" THEN extra ELSE {}
      IN /\ ops < budget
         /\ target = "managed" => rq[n][i].present
         /\ target = "gone" => (~rq[n][i].present /\ extra = {})
         /\ resp' = [NoResp EXCEPT
                       !.kind = "validation", !.n = n, !.i = i,
                       !.verb = verb, !.user = user,
                       !.handlers = handlers, !.labels = labels,
                       !.result = Validated(handlers, verb, user,
                                            target # "gone", labels)]
         /\ ops' = ops + 1
         /\ UNCHANGED <<build, grq, nsMatch, rq, rec, adm, dirty, budget>>

\* managed objects that disappear while the reconciler removes the objects
\* of namespaces that left the selection and of items that left the spec
NextVanish ==
  \/ Reconcile
  \/ Membership
  \/ \E i \in Items : RemoveItem(i)
  \/ \E n \in Namespaces, i \in Items : Vanish(n, i)

\* the deletion handler is the same for every revision of the mutators
InitVanish == InitChanges /\ build = "head"

SpecVanish == InitVanish /\ [][NextVanish]_vars

\* the reconciler with evaluations of the selector that fail
NextSelectorFaults ==
  \/ Reconcile
  \/ RecSelectorFails
  \/ Membership

InitSelectorFaults == Init /\ build = "head"

SpecSelectorFaults == InitSelectorFaults /\ [][NextSelectorFaults]_vars

\* the reconciler with creations and updates of managed objects that fail
NextFaults ==
  \/ Reconcile
  \/ RecFanOutFails
  \/ Membership

\* no admission request is served here, one revision of the mutator is enough
InitFaults == Init /\ build = "head"

SpecFaults == InitFaults /\ [][NextFaults]_vars

\* ------------------------------------------- GetQuotaSpace on its own
\* resource names of the lists handed to GetQuotaSpace
SpaceNames == {"pods", "cpu"}

\* the resource lists over these names with quantities up to MaxQty
SpaceLists == UNION {[S -> 0..MaxQty] : S \in SUBSET SpaceNames}

\* a GlobalResourceQuota built the way the unit tests build one: item "pods"
\* is declared or not, and has a status row or not; item "extra" is neither
\* declared nor has it a row
InitSpace ==
  /\ build = "head"
  /\ \E declared \in BOOLEAN, row \in BOOLEAN,
        specHard \in SpaceLists, hard \in SpaceLists, used \in SpaceLists :
       /\ ~declared => specHard = EmptyRL
       /\ ~row => (hard = EmptyRL /\ used = EmptyRL)
       /\ grq = [exists |-> TRUE, rv |-> 1, active |-> TRUE,
                 items |-> [i \in (IF declared THEN {"pods"} ELSE {}) |->
                              specHard],
                 status |-> [EmptyStatus EXCEPT
                               !.quota = [i \in (IF row THEN {"pods"} ELSE {})
                                            |-> [hard |-> hard,
                                                 used |-> used]]]]
  /\ nsMatch = [n \in Namespaces |-> TRUE]
  /\ rq = [n \in Namespaces |-> [i \in Items |-> NoRQ]]
  /\ rec = IdleRec
  /\ adm = [k \in 1..MaxInflight |-> NoAdm]
  /\ resp = NoResp
  /\ dirty = FALSE
  /\ ops = 0
  /\ budget = 0

\* a caller asks for the space of an item of the object just built and keeps
\* what it gets: the error as the result, the list as the space
Space ==
  \E index \in Items :
    LET got == GetQuotaSpace(grq, index)
    IN /\ resp = NoResp
       /\ resp' = [NoResp EXCEPT
                     !.kind = "space", !.i = index,
                     !.result = IF got.ok THEN "ok" ELSE "no item found",
                     !.space = got.space]
       /\ UNCHANGED <<build, grq, nsMatch, rq, rec, adm, dirty, ops, budget>>

\* a caller asks for the space of an item with the usage it holds itself
AggregatedSpace ==
  \E index \in Items, used \in SpaceLists :
    LET got == GetAggregatedQuotaSpace(grq, index, used)
    IN /\ resp = NoResp
       /\ resp' = [NoResp EXCEPT
                     !.kind = "aggregated", !.i = index, !.used = used,
                     !.result = IF got.ok THEN "ok" ELSE "no item found",
                     !.space = got.space]
       /\ UNCHANGED <<build, grq, nsMatch, rq, rec, adm, dirty, ops, budget>>

NextSpace ==
  \/ Space
  \/ AggregatedSpace

SpecSpace == InitSpace /\ [][NextSpace]_vars

\* ---------------------------------------- AssignNamespaces on its own
\* the lists of namespaces handed to AssignNamespaces: every order of every
\* set of namespaces, each in any phase
RECURSIVE GivenLists(_)
GivenLists(names) ==
  {<<>>} \cup
  UNION {{<<[name |-> n, phase |-> p]>> \o rest :
            p \in Phases, rest \in GivenLists(names \ {n})} : n \in names}

\* what status.namespaces holds before the call
EarlierNamespaces == {<<>>, <<"c">>, <<"a", "b">>}

\* a GlobalResourceQuota with some earlier status.namespaces, and the list
\* a test hands to AssignNamespaces
InitAssign ==
  /\ build = "head"
  /\ \E earlier \in EarlierNamespaces :
       grq = [exists |-> TRUE, rv |-> 1, active |-> TRUE,
              items |-> [i \in {} |-> EmptyRL],
              status |-> [EmptyStatus EXCEPT !.namespaces = earlier,
                                             !.size = Len(earlier)]]
  /\ nsMatch = [n \in Namespaces |-> TRUE]
  /\ rq = [n \in Namespaces |-> [i \in Items |-> NoRQ]]
  /\ rec = IdleRec
  /\ adm = [k \in 1..MaxInflight |-> NoAdm]
  /\ \E given \in GivenLists(Namespaces) :
       resp = [NoResp EXCEPT !.given = given]
  /\ dirty = FALSE
  /\ ops = 0
  /\ budget = 0

\* the call grq.AssignNamespaces(namespaces) on the object in memory
Assign ==
  /\ resp.kind = "none"
  /\ grq' = [grq EXCEPT !.status = AssignNamespaces(grq.status, resp.given)]
  /\ resp' = [resp EXCEPT !.kind = "assign"]
  /\ UNCHANGED <<build, nsMatch, rq, rec, adm, dirty, ops, budget>>

NextAssign == Assign

SpecAssign == InitAssign /\ [][NextAssign]_vars

\* ---------------------------------------- selector resolution on its own
\* selector entries of a GRQ at most
MaxEntries == 2

\* a namespace is being deleted, carries the tenant label, or neither; the
\* label of a namespace that is being deleted is never looked at
NsKinds == {"plain", "tenant", "deleting"}

\* the lists selector.GetMatchingNamespaces can return: every order of every
\* set of namespaces
RECURSIVE SelectedLists(_)
SelectedLists(names) ==
  {<<>>} \cup
  UNION {{<<n>> \o rest : rest \in SelectedLists(names \ {n})} : n \in names}

\* a selector entry with the outcome of its evaluation: the list it returned,
\* or an error and no list
SelectorEntries ==
  {[tenant |-> t, err |-> FALSE, selected |-> l] :
     t \in BOOLEAN, l \in SelectedLists(Namespaces)}
  \cup {[tenant |-> t, err |-> TRUE, selected |-> <<>>] : t \in BOOLEAN}

RECURSIVE SelectorLists(_)
SelectorLists(k) ==
  IF k = 0 THEN {<<>>}
  ELSE SelectorLists(k - 1)
       \cup {<<e>> \o rest : e \in SelectorEntries,
                            rest \in {l \in SelectorLists(k - 1) :
                                        Len(l) = k - 1}}

\* a plausible slip: the names already collected are not looked up
RECURSIVE CollectSelected_NoSeen(_, _, _, _)
CollectSelected_NoSeen(selected, mustTenantNamespace, cluster, namespaces) ==
  IF selected = <<>> THEN namespaces
  ELSE LET ns == Head(selected)
           skip == \/ cluster[ns] = "deleting"
                   \/ mustTenantNamespace /\ cluster[ns] # "tenant"
       IN CollectSelected_NoSeen(Tail(selected), mustTenantNamespace, cluster,
                                 IF skip THEN namespaces
                                 ELSE Append(namespaces, ns))

\* the loop over the namespaces one selector entry returned; the names in
\* seenNamespaces are those of the namespaces collected so far
RECURSIVE CollectSelected(_, _, _, _)
CollectSelected(selected, mustTenantNamespace, cluster, namespaces) ==
  IF selected = <<>> THEN namespaces
  ELSE LET ns == Head(selected)
           skip == \/ cluster[ns] = "deleting"
                   \/ ns \in Range(namespaces)
                   \/ mustTenantNamespace /\ cluster[ns] # "tenant"
       IN CollectSelected(Tail(selected), mustTenantNamespace, cluster,
                          IF skip THEN namespaces ELSE Append(namespaces, ns))

\* the loop over quota.Spec.Selectors: an entry whose evaluation failed is
\* passed over
RECURSIVE CollectNamespaces(_, _, _)
CollectNamespaces(selectors, cluster, namespaces) ==
  IF selectors = <<>> THEN namespaces
  ELSE LET selector == Head(selectors)
       IN CollectNamespaces(
            Tail(selectors), cluster,
            IF selector.err THEN namespaces
            ELSE CollectSelected(selector.selected,
                                 selector.tenant, cluster, namespaces))

\* a GRQ with up to MaxEntries selector entries, what each of them returns,
\* and the namespaces of the cluster
InitSelect ==
  /\ build = "head"
  /\ grq = [exists |-> TRUE, rv |-> 1, active |-> TRUE,
            items |-> [i \in {} |-> EmptyRL], status |-> EmptyStatus]
  /\ nsMatch = [n \in Namespaces |-> TRUE]
  /\ rq = [n \in Namespaces |-> [i \in Items |-> NoRQ]]
  /\ rec = IdleRec
  /\ adm = [k \in 1..MaxInflight |-> NoAdm]
  /\ \E given \in SelectorLists(MaxEntries),
        cluster \in [Namespaces -> NsKinds] :
       resp = [NoResp EXCEPT !.given = given, !.cluster = cluster]
  /\ dirty = FALSE
  /\ ops = 0
  /\ budget = 0

\* the selectors are resolved; the reconcile keeps the names
Select ==
  /\ resp.kind = "none"
  /\ rec' = [rec EXCEPT
               !.nss = CollectNamespaces(resp.given, resp.cluster, <<>>)]
  /\ resp' = [resp EXCEPT !.kind = "select"]
  /\ UNCHANGED <<build, grq, nsMatch, rq, adm, dirty, ops, budget>>

NextSelect == Select

SpecSelect == InitSelect /\ [][NextSelect]_vars

\* ------------------------------------------- ItemObjectName on its own
\* names of GRQs and of items: they match ^[a-z0-9]([-a-z0-9]*[a-z0-9])?$
\* and are at most 20 characters long
NameChoices == {"a", "b", "a-a", "a-b", "b-a"}

\* ItemObjectName: fmt.Sprintf("capsule-%s-%s", quota.Name, itemName)
ItemObjectName(itemName, quotaName) ==
  "capsule-" \o quotaName \o "-" \o itemName

\* two different pairs of a GRQ and one of its items
InitNames ==
  /\ build = "head"
  /\ grq = [exists |-> TRUE, rv |-> 1, active |-> TRUE,
            items |-> [i \in {} |-> EmptyRL], status |-> EmptyStatus]
  /\ nsMatch = [n \in Namespaces |-> TRUE]
  /\ rq = [n \in Namespaces |-> [i \in Items |-> NoRQ]]
  /\ rec = IdleRec
  /\ adm = [k \in 1..MaxInflight |-> NoAdm]
  /\ \E q1 \in NameChoices, i1 \in NameChoices,
        q2 \in NameChoices, i2 \in NameChoices :
       /\ <<q1, i1>> # <<q2, i2>>
       /\ resp = [NoResp EXCEPT
                    !.given = <<[quota |-> q1, item |-> i1],
                                [quota |-> q2, item |-> i2]>>]
  /\ dirty = FALSE
  /\ ops = 0
  /\ budget = 0

\* the reconcilers of the two GRQs name the object of their item in one
\* namespace (Name: ItemObjectName(index, quota) of syncResourceQuota)
ItemNames ==
  /\ resp.kind = "none"
  /\ resp' = [resp EXCEPT
                !.kind = "names",
                !.names = [k \in 1..Len(resp.given) |->
                             ItemObjectName(resp.given[k].item,
                                            resp.given[k].quota)]]
  /\ UNCHANGED <<build, grq, nsMatch, rq, rec, adm, dirty, ops, budget>>

NextNames == ItemNames

SpecNames == InitNames /\ [][NextNames]_vars

\* requests on the quota objects while the reconciler creates and deletes
\* the managed ones
NextValidation ==
  \/ Reconcile
  \/ Membership
  \/ Validation

\* the validators are the same in every revision of the mutators
InitValidation == Init /\ build = "head"

SpecValidation == InitValidation /\ [][NextValidation]_vars

\* the operator switches the GRQ off or on, or deletes it
Retire ==
  \/ \E b \in BOOLEAN : SetActive(b)
  \/ DeleteGRQ

\* usage, namespaces leaving and joining, and a GRQ that is switched off or
\* deleted: the runs in which managed objects with usage are deleted
NextRelease ==
  \/ Reconcile
  \/ StatusAdmission
  \/ UsageRequests
  \/ Membership
  \/ Retire

SpecRelease == InitChanges /\ [][NextRelease]_vars

\* requests for new hard limits of the managed objects, with namespaces
\* leaving and joining
NextGrants ==
  \/ Reconcile
  \/ SpecAdmission
  \/ HardRequests
  \/ Membership

\* (the status mutator serves no request here; its revision is fixed)
\* the retrying revision of the spec mutator
InitGrants == Init /\ build = "retry"

SpecGrants == InitGrants /\ [][NextGrants]_vars

\* the same with one operation more
\* the same with three requests
InitRegrant == InitChanges /\ build = "retry"

SpecRegrant == InitRegrant /\ [][NextGrants]_vars

\* ---------------------------------------------------------------- observers
\* nothing is in flight and no reconcile is queued
Quiescent ==
  /\ rec.pc = "idle"
  /\ ~dirty
  /\ \A k \in 1..MaxInflight : adm[k].kind = "none"

\* status.used[r] of the managed objects of item i, summed over the
\* namespaces of the sequence nsSeq
RECURSIVE SumUsed(_, _, _)
SumUsed(nsSeq, i, r) ==
  IF nsSeq = <<>> THEN 0
  ELSE (IF rq[Head(nsSeq)][i].present THEN Val(rq[Head(nsSeq)][i].used, r)
                                      ELSE 0)
       + SumUsed(Tail(nsSeq), i, r)

\* status.hard[r] of the managed objects of item i, summed over the
\* namespaces of the sequence nsSeq
RECURSIVE SumHard(_, _, _)
SumHard(nsSeq, i, r) ==
  IF nsSeq = <<>> THEN 0
  ELSE (IF rq[Head(nsSeq)][i].present
        THEN Val(rq[Head(nsSeq)][i].statusHard, r) ELSE 0)
       + SumHard(Tail(nsSeq), i, r)

\* no managed object reports consumption
NoConsumption ==
  \A n \in Namespaces, i \in Items, r \in Resources : Val(rq[n][i].used, r) = 0

\* a reconcile of an active GRQ returns without error, and the GRQ's spec
\* and the selected namespaces are still those the reconcile worked on
ReconcileSucceeds ==
  /\ rec.pc # "idle"
  /\ rec'.pc = "idle"
  /\ rec'.result = "ok"
  /\ rec.inst.active
  /\ grq'.exists
  /\ grq'.active
  /\ grq'.items = rec.inst.items
  /\ rec.nss = SelectSeq(NsOrder, LAMBDA n : nsMatch'[n])

\* ------------------------------------------------------------------- claims
\* C1: in every quiescent state the status.used of the managed objects of an
\* item, summed over the selected namespaces, is at most the declared hard of
\* every resource of the item.
C1_SumWithinHard ==
  (Quiescent /\ grq.exists) =>
    \A i \in DOMAIN grq.items : \A r \in DOMAIN grq.items[i] :
      SumUsed(GetMatchingGlobalQuotaNamespaces, i, r) <= grq.items[i][r]

\* C2: once the reconciles of an active GRQ have completed and nothing
\* changes any more, no namespace outside the current match set holds a
\* managed quota object of the GRQ.
C2_NoObjectOutsideMatchSet ==
  (Quiescent /\ grq.exists /\ grq.active) =>
    \A n \in Namespaces : ~nsMatch[n] => \A i \in Items : ~rq[n][i].present

\* C3: when a reconcile of an active GRQ returns success and nothing is
\* consumed, every selected namespace holds the object of every declared
\* item with spec.hard equal to the declared hard and to the hard of the
\* status row, the row shows used 0, and the status lists the selected
\* namespaces sorted, with their number as size.
C3_FanOutAfterReconcile ==
  [][(ReconcileSucceeds /\ NoConsumption') =>
       /\ \A n \in Range(rec.nss), i \in DOMAIN grq'.items :
            /\ rq'[n][i].present
            /\ rq'[n][i].specHard = grq'.items[i]
            /\ i \in DOMAIN grq'.status.quota
            /\ grq'.status.quota[i].hard = grq'.items[i]
            /\ \A r \in DOMAIN grq'.items[i] :
                 Val(grq'.status.quota[i].used, r) = 0
       /\ grq'.status.size = Len(rec.nss)
       /\ grq'.status.namespaces = SortStrings(rec.nss)]_vars

\* C4: the fan-out of a reconcile sets spec.hard of the object of item i in
\* every selected namespace n, for every resource of the item's status row,
\* to the remaining space of the item plus n's own status.used, so that the
\* cap is never below n's own used.
C4_CapIsHeadroomPlusOwnUsed ==
  [][(rec.pc = "fanOut" /\ rec'.pc = "statusNamespaces") =>
       \A n \in Range(rec.nss), i \in DOMAIN rec.inst.items :
         /\ i \in DOMAIN rec.inst.status.quota
         /\ rq'[n][i].present
         /\ \A r \in DOMAIN rec.inst.status.quota[i].hard :
              /\ rq'[n][i].specHard[r]
                   = Max(0, rec.inst.status.quota[i].hard[r]
                            - Val(rec.inst.status.quota[i].used, r))
                     + Val(rq[n][i].used, r)
              /\ rq'[n][i].specHard[r] >= Val(rq'[n][i].used, r)]_vars

\* C4 witness: a fan-out has just run while two namespaces consume, and the
\* cap of one of them is below the hard of the status row
C4_Witness ==
  /\ rec.pc = "statusNamespaces"
  /\ ~rec.syncErr
  /\ \E n \in Range(rec.nss), m \in Range(rec.nss) :
       /\ n # m
       /\ "pods" \in DOMAIN rec.inst.status.quota
       /\ Val(rq[n]["pods"].used, "pods") > 0
       /\ Val(rq[m]["pods"].used, "pods") > 0
       /\ rq[n]["pods"].specHard["pods"]
            < rec.inst.status.quota["pods"].hard["pods"]
       /\ rq[n]["pods"].specHard["pods"] >= Val(rq[n]["pods"].used, "pods")

\* C5: with item pods = 5 and a, b, c selected, once 2 pods are used in a and
\* 1 in b and the system has come to rest, the status row shows used 3 and
\* the objects of a, b and c have hard 5.
C5_Aggregation ==
  (/\ Quiescent
   /\ grq.exists
   /\ grq.active
   /\ grq.items = [i \in {"pods"} |-> One("pods", 5)]
   /\ \A n \in Namespaces : nsMatch[n] /\ rq[n]["pods"].present
   /\ Val(rq["a"]["pods"].used, "pods") = 2
   /\ Val(rq["b"]["pods"].used, "pods") = 1
   /\ Val(rq["c"]["pods"].used, "pods") = 0)
  => /\ "pods" \in DOMAIN grq.status.quota
     /\ Val(grq.status.quota["pods"].used, "pods") = 3
     /\ \A n \in Namespaces : rq[n]["pods"].specHard = One("pods", 5)

\* C6: at rest the used of an item's status row equals the consumption the
\* managed objects report, as long as that is within the declared hard: U
\* after a rise to U, and 0 again after everything was released.
C6_RoundTrip ==
  (Quiescent /\ grq.exists /\ grq.active) =>
    \A i \in (DOMAIN grq.items) \cap (DOMAIN grq.status.quota) :
      \A r \in DOMAIN grq.items[i] :
        SumUsed(NsOrder, i, r) <= grq.items[i][r]
          => Val(grq.status.quota[i].used, r) = SumUsed(NsOrder, i, r)

\* C7: every quantity stored in a status row's used and hard and in a
\* managed object's hard is at least 0.
C7_NonNegative ==
  /\ \A i \in DOMAIN grq.status.quota :
       /\ \A r \in DOMAIN grq.status.quota[i].used :
            grq.status.quota[i].used[r] >= 0
       /\ \A r \in DOMAIN grq.status.quota[i].hard :
            grq.status.quota[i].hard[r] >= 0
  /\ \A n \in Namespaces, i \in Items :
       /\ \A r \in DOMAIN rq[n][i].specHard : rq[n][i].specHard[r] >= 0
       /\ \A r \in DOMAIN rq[n][i].statusHard : rq[n][i].statusHard[r] >= 0

\* C8: when spec.active is false and the reconciles have completed, no
\* namespace holds a managed quota object of the GRQ.
C8_InactiveRemovesAll ==
  (Quiescent /\ grq.exists /\ ~grq.active) =>
    \A n \in Namespaces, i \in Items : ~rq[n][i].present

\* C9: when the parent GRQ is absent or inactive, the status mutator admits
\* the UPDATE with the object unchanged and writes no GRQ status.
C9_NoOpWithoutActiveParent ==
  (resp.kind = "status" /\ resp.parent \in {"absent", "inactive"}) =>
    (resp.result = "allowed" /\ ~resp.wrote)

\* C10: an UPDATE whose usage increase exceeds the remaining space of the
\* item is admitted with a patched object, never answered with an error.
C10_OverflowIsAdmitted ==
  (resp.kind = "status" /\ resp.overflow) => resp.result = "patched"

\* C11: when the status mutator has served an UPDATE of an object whose
\* parent GRQ is active and has a status row for the item, then for every
\* resource of the item's headroom the used of the row is the used the
\* mutator found, changed by the usage difference of the request: unchanged
\* for 0, plus the difference up to the headroom for an increase, plus the
\* negative difference and clamped at 0 for a decrease.
C11_Accounting ==
  [][\A k \in 1..MaxInflight :
       (/\ adm[k].kind = "status"
        /\ adm'[k].kind = "none"
        /\ grq.exists
        /\ grq.active
        /\ adm[k].i \in DOMAIN grq.status.quota)
       => /\ grq'.exists
          /\ adm[k].i \in DOMAIN grq'.status.quota
          /\ \A r \in DOMAIN GetQuotaSpace(grq, adm[k].i).space :
               LET used == Val(grq.status.quota[adm[k].i].used, r)
                   delta == Diff(adm[k].old, adm[k].new, r)
                   headroom == GetQuotaSpace(grq, adm[k].i).space[r]
               IN Val(grq'.status.quota[adm[k].i].used, r)
                    = IF delta = 0 THEN used
                      ELSE IF delta > 0
                      THEN (IF delta <= headroom THEN used + delta
                                                 ELSE used + headroom)
                      ELSE Max(0, used + delta)]_vars

\* C12: when the status mutator has served an UPDATE of an object whose
\* parent GRQ is active and has a status row for the item, it has emitted
\* an object whose status.hard is, for every resource of the item's
\* headroom, the headroom the mutator found, or the status.hard of the old
\* object when the usage increase of the request exceeds that headroom.
C12_EmittedHard ==
  [][\A k \in 1..MaxInflight :
       (/\ adm[k].kind = "status"
        /\ adm'[k].kind = "none"
        /\ grq.exists
        /\ grq.active
        /\ adm[k].i \in DOMAIN grq.status.quota
        /\ rq[adm[k].n][adm[k].i].present)
       => /\ resp'.result = "patched"
          /\ \A r \in DOMAIN GetQuotaSpace(grq, adm[k].i).space :
               LET delta == Diff(adm[k].old, adm[k].new, r)
                   headroom == GetQuotaSpace(grq, adm[k].i).space[r]
               IN Val(rq'[adm[k].n][adm[k].i].statusHard, r)
                    = IF delta > headroom THEN Val(adm[k].old.statusHard, r)
                                          ELSE headroom]_vars

\* C13: when the status write of the status mutator meets a resourceVersion
\* other than the one it read, the handler goes back to reading the GRQ and
\* computes again; the request is not answered on a conflict.
C13_ConflictIsRetried ==
  [][\A k \in 1..MaxInflight :
       (/\ adm[k].kind = "status"
        /\ adm[k].pc = "write"
        /\ grq.exists
        /\ grq.rv # adm[k].snap
        /\ adm'[k] # adm[k])
       => /\ adm'[k].kind = "status"
          /\ adm'[k].pc = "read"]_vars

\* C14: every step that changes the status of the GRQ is the write of a
\* writer that read the resourceVersion stored at that moment: a mutator or
\* the deletion handler whose attempt fetched this version, the reconciler
\* writing the instance it holds at this version, or updateQuotaStatus and
\* statusNamespaces, which write the object they have just fetched and
\* leave the used of every row as stored.
C14_WritesAreConditioned ==
  [][(grq'.status # grq.status) =>
       \/ \E k \in 1..MaxInflight :
            /\ adm[k].kind # "none"
            /\ adm[k].pc = "write"
            /\ adm'[k] # adm[k]
            /\ adm[k].snap = grq.rv
       \/ /\ rec.pc = "delete"
          /\ rec.delPc = "write"
          /\ rec' # rec
          /\ rec.delSnap = grq.rv
       \/ /\ rec.pc = "syncStatus"
          /\ rec' # rec
          /\ rec.inst.rv = grq.rv
          /\ \A i \in DOMAIN grq.status.quota :
               grq'.status.quota[i] = grq.status.quota[i]
       \/ /\ rec.pc \in {"updateQuotaStatus", "statusNamespaces"}
          /\ rec' # rec
          /\ grq'.status.quota = grq.status.quota]_vars

\* C14 witness: a mutator is about to write a status computed from a
\* version that another writer has replaced since, and the used it computed
\* differs from the used stored now
C14_Witness ==
  \E k \in 1..MaxInflight :
    /\ adm[k].kind # "none"
    /\ adm[k].pc = "write"
    /\ grq.exists
    /\ adm[k].snap # grq.rv
    /\ adm[k].i \in DOMAIN grq.status.quota
    /\ Val(grq.status.quota[adm[k].i].used, "pods") > 0
    /\ adm[k].newStatus.quota[adm[k].i].used # grq.status.quota[adm[k].i].used

\* C17: the step that admits the DELETE of a managed object whose parent
\* GRQ exists and has a row for the item stores, for every resource of the
\* row's used, the used found at that step minus the status.used of the
\* deleted object, at least 0 (unchanged when the object does not report
\* the resource); an attempt of the handler that does not admit the DELETE
\* leaves the GRQ as it is, so one deletion lowers the counter once.
C17_DeleteSubtractsOnce ==
  [][(rec.pc = "delete" /\ rec' # rec) =>
       LET n == Head(rec.del)[1]
           i == Head(rec.del)[2]
       IN IF ~rq'[n][i].present
          THEN (grq.exists /\ i \in DOMAIN grq.status.quota) =>
                 /\ i \in DOMAIN grq'.status.quota
                 /\ DOMAIN grq'.status.quota[i].used
                      = DOMAIN grq.status.quota[i].used
                 /\ \A r \in DOMAIN grq.status.quota[i].used :
                      grq'.status.quota[i].used[r]
                        = IF Has(rec.delOld.used, r)
                          THEN Max(0, grq.status.quota[i].used[r]
                                      - rec.delOld.used[r])
                          ELSE grq.status.quota[i].used[r]
          ELSE grq' = grq]_vars

\* C17 witness: the deletion of an object that reported usage has been
\* admitted on a later attempt, after a conflict, and the reconcile goes on
C17_Witness ==
  /\ rec.pc = "fanOut"
  /\ rec.del = <<>>
  /\ rec.delAttempts > 0
  /\ Val(rec.delOld.used, "pods") > 0
  /\ grq.exists
  /\ "pods" \in DOMAIN grq.status.quota
  /\ \E n \in Namespaces : ~nsMatch[n] /\ ~rq[n]["pods"].present

\* C18: when the parent GRQ is gone at the moment the deletion handler is
\* called, the DELETE is admitted without an error (the object is removed
\* and the reconcile goes on) and nothing of the GRQ is written.
C18_AbsentParentAdmits ==
  [][(/\ rec.pc = "delete"
      /\ rec.delPc = "read"
      /\ rec.delAttempts = 0
      /\ ~grq.exists
      /\ rec' # rec)
     => /\ ~rq'[Head(rec.del)[1]][Head(rec.del)[2]].present
        /\ grq' = grq
        /\ ~rec'.syncErr
        /\ rec'.pc \in {"delete", "gc", "fanOut"}]_vars

\* C18 witness: the GRQ is gone, the object deleted last reported usage,
\* and its usage is still in the row's used although no object that is left
\* reports any: the DELETE was admitted without a write
C18_Witness ==
  /\ ~grq.exists
  /\ rec.pc = "fanOut"
  /\ rec.del = <<>>
  /\ ~rec.syncErr
  /\ Val(rec.delOld.used, "pods") > 0
  /\ "pods" \in DOMAIN grq.status.quota
  /\ Val(grq.status.quota["pods"].used, "pods") = Val(rec.delOld.used, "pods")
  /\ \A n \in Namespaces : Val(rq[n]["pods"].used, "pods") = 0

\* C19: while spec.active is false, serving the DELETE of a managed object
\* changes the used of no row of the GRQ and does not fail.
C19_InactiveDeleteIsNoOp ==
  [][(/\ rec.pc = "delete"
      /\ rec' # rec
      /\ grq.exists
      /\ ~grq.active)
     => /\ \A i \in DOMAIN grq.status.quota :
             /\ i \in DOMAIN grq'.status.quota
             /\ grq'.status.quota[i].used = grq.status.quota[i].used
        /\ ~rec'.syncErr]_vars

\* C15: when the spec mutator has stored its status write for an UPDATE,
\* then for every resource of the item's headroom, with granted the smaller
\* of the requested increase of hard (new minus old) and the headroom, the
\* emitted object has hard = old hard + granted, in spec and in status, and
\* the used of the row has grown by granted in that write.
C15_Grant ==
  [][\A k \in 1..MaxInflight :
       (/\ adm[k].kind = "spec"
        /\ adm'[k].kind = "none"
        /\ resp'.wrote
        /\ rq[adm[k].n][adm[k].i].present)
       => \A r \in DOMAIN GetQuotaSpace(grq, adm[k].i).space :
            LET oldHard == Val(adm[k].old.statusHard, r)
                newHard == IF Has(adm[k].new.statusHard, r)
                           THEN adm[k].new.statusHard[r] ELSE oldHard
                space == GetQuotaSpace(grq, adm[k].i).space[r]
                granted == IF newHard - oldHard <= space
                           THEN newHard - oldHard ELSE space
                emitted == rq'[adm[k].n][adm[k].i]
            IN /\ Val(emitted.statusHard, r) = oldHard + granted
               /\ Val(emitted.specHard, r) = oldHard + granted
               /\ Val(grq'.status.quota[adm[k].i].used, r)
                    = Val(grq.status.quota[adm[k].i].used, r) + granted]_vars

\* C16: where only the spec mutator grants (the used of a row starts at 0
\* and is the sum of the increases granted by the requests that were
\* stored), the used of a row never exceeds the hard of the row, the
\* headroom before the first request, and the hard limits the managed
\* objects of the item hold sum up to at most that used.
C16_NoDoubleGrant ==
  \A i \in DOMAIN grq.status.quota : \A r \in DOMAIN grq.status.quota[i].hard :
    /\ Val(grq.status.quota[i].used, r) <= grq.status.quota[i].hard[r]
    /\ SumHard(NsOrder, i, r) <= Val(grq.status.quota[i].used, r)

\* C16 witness: two namespaces hold a granted hard, the request answered
\* last was stored on a later attempt after a conflict, and the grants
\* together use up the hard of the row
C16_Witness ==
  /\ resp.kind = "spec"
  /\ resp.wrote
  /\ resp.attempts > 0
  /\ "pods" \in DOMAIN grq.status.quota
  /\ Val(grq.status.quota["pods"].used, "pods")
       = grq.status.quota["pods"].hard["pods"]
  /\ SumHard(NsOrder, "pods", "pods") = grq.status.quota["pods"].hard["pods"]
  /\ \E m \in Namespaces :
       /\ m # resp.n
       /\ Val(rq[m]["pods"].statusHard, "pods") > 0
       /\ Val(rq[resp.n]["pods"].statusHard, "pods") > 0

\* C20: a request of a user to update or to delete a quota object that
\* carries the managed-by label is denied.
C20_ManagedIsDenied ==
  (/\ resp.kind = "validation"
   /\ resp.verb \in {"UPDATE", "DELETE"}
   /\ resp.user = "user"
   /\ ManagedByLabel \in resp.labels)
  => resp.result = "denied"

\* C21: a request the validators deny is an UPDATE or a DELETE of an object
\* that carries the managed-by label, sent by someone other than the
\* controller; requests of the controller and requests on objects without
\* the label pass.
C21_DeniesOnlyUsersOnManaged ==
  (/\ resp.kind = "validation"
   /\ resp.result = "denied")
  => /\ resp.verb \in {"UPDATE", "DELETE"}
     /\ ManagedByLabel \in resp.labels
     /\ resp.user # "controller"

\* C22: once a reconcile of the active GRQ has completed without an error
\* of syncResourceQuotas and no further reconcile is queued, every key of
\* the stored status.quota is an item of the spec; the row of an item
\* that was removed from the spec is gone.
C22_KeyLiveness ==
  (/\ rec.pc = "idle"
   /\ rec.result = "ok"
   /\ ~rec.syncErr
   /\ ~dirty
   /\ grq.exists
   /\ grq.active)
  => (DOMAIN grq.status.quota) \subseteq (DOMAIN grq.items)

\* C23: in the orphan loop of a reconcile, (1) the row of an item leaves the
\* status the reconcile holds only when no object of that item is left in
\* the matching namespaces and in status.namespaces, (2) no object of an
\* item that is still declared is changed or deleted, and (3) when a
\* deletion fails the rows stay, in the status held and in the stored one.
C23_OrphansFirst ==
  [][(/\ rec' # rec
      /\ \/ rec.pc = "orphans"
         \/ rec.pc = "delete" /\ rec.next = "gc")
     => /\ \A i \in DOMAIN rec.inst.status.quota :
             (rec'.pc # "idle" /\ i \notin DOMAIN rec'.inst.status.quota)
             => \A n \in Range(rec.nss \o rec.inst.status.namespaces) :
                  ~rq'[n][i].present
        /\ \A n \in Namespaces : \A i \in DOMAIN rec.inst.items :
             rq'[n][i] = rq[n][i]
        /\ rec'.syncErr
             => /\ rec'.inst.status.quota = rec.inst.status.quota
                /\ grq'.status = grq.status]_vars

\* C23 witness: the orphan loop has deleted the last object of an item that
\* left the spec and dropped its row, while the row is still stored and an
\* object of a declared item exists
C23_Witness ==
  /\ rec.pc = "gc"
  /\ grq.exists
  /\ rec.delOld.present
  /\ \E i \in DOMAIN grq.status.quota :
       /\ i \notin DOMAIN rec.inst.items
       /\ i \notin DOMAIN rec.inst.status.quota
       /\ \A n \in Namespaces : ~rq[n][i].present
  /\ \E n \in Namespaces : \E i \in DOMAIN rec.inst.items : rq[n][i].present

\* C24: a reconcile whose fan-out failed for a matching namespace ends with
\* an error, so that it is run again.
C24_FanOutErrorIsReturned ==
  [][(/\ rec.pc = "statusNamespaces"
      /\ rec.errAt = "fanOut"
      /\ rec'.pc = "idle")
     => rec'.result = "error"]_vars

\* C25: when the object the reconciler is about to delete, in the orphan
\* loop or in the garbage collection, has been removed by someone else
\* since the reconciler read it, the reconcile goes on without an error.
C25_NotFoundIsSuccess ==
  [][(/\ rec.pc = "delete"
      /\ rec.delPc = "read"
      /\ rec.delAttempts = 0
      /\ ~rq[Head(rec.del)[1]][Head(rec.del)[2]].present
      /\ rec' # rec)
     => ~rec'.syncErr]_vars

\* C26: as long as nobody but the reconciler has acted on the GRQ, its
\* namespaces and its objects since the GRQ was created, a reconcile that
\* follows a reconcile which returned without error changes neither the
\* stored GRQ nor any managed object.
C26_SecondReconcileWritesNothing ==
  [][(/\ rec.pc # "idle"
      /\ rec.again
      /\ ops = 0
      /\ rec' # rec)
     => /\ grq' = grq
        /\ rq' = rq]_vars

\* C27: once a reconcile of the active GRQ has completed without an error
\* of syncResourceQuotas and no further reconcile is queued, the row of
\* every declared item has the hard the spec declares for the item.
C27_HardIsEchoed ==
  (/\ rec.pc = "idle"
   /\ rec.result = "ok"
   /\ ~rec.syncErr
   /\ ~dirty
   /\ grq.exists
   /\ grq.active)
  => \A i \in DOMAIN grq.items :
       /\ i \in DOMAIN grq.status.quota
       /\ grq.status.quota[i].hard = grq.items[i]


\* C29: when status.quota has a row for the item, GetQuotaSpace returns no
\* error and a list with exactly the resource names of the row's hard, each
\* with the value max(0, hard - used) where a resource missing from used
\* counts as 0; what spec.items declares for the item plays no part
C29_SpaceFromStatusRow ==
  (resp.kind = "space" /\ resp.i \in DOMAIN grq.status.quota)
    => LET row == grq.status.quota[resp.i]
       IN /\ resp.result = "ok"
          /\ DOMAIN resp.space = DOMAIN row.hard
          /\ \A r \in DOMAIN row.hard :
               LET u == IF r \in DOMAIN row.used THEN row.used[r] ELSE 0
               IN resp.space[r] = Max(0, row.hard[r] - u)

\* the space of an item with a row was asked for: one resource is used
\* beyond its hard, another is missing from used, and the item is declared
\* with a hard that differs from the row's
C29_Witness ==
  /\ resp.kind = "space"
  /\ resp.i \in DOMAIN grq.status.quota
  /\ resp.i \in DOMAIN grq.items
  /\ grq.items[resp.i] # grq.status.quota[resp.i].hard
  /\ LET row == grq.status.quota[resp.i]
     IN /\ \E r \in DOMAIN row.hard :
             /\ r \in DOMAIN row.used
             /\ row.used[r] > row.hard[r]
             /\ resp.space[r] = 0
        /\ \E r \in DOMAIN row.hard :
             /\ r \notin DOMAIN row.used
             /\ row.hard[r] > 0
             /\ resp.space[r] = row.hard[r]

\* C30: when status.quota has no row for the item and spec.items declares
\* it, GetQuotaSpace returns no error and the declared hard verbatim: the
\* same resource names with the same quantities
C30_SpaceFromSpec ==
  (resp.kind = "space" /\ resp.i \notin DOMAIN grq.status.quota
                       /\ resp.i \in DOMAIN grq.items)
    => /\ resp.result = "ok"
       /\ DOMAIN resp.space = DOMAIN grq.items[resp.i]
       /\ \A r \in DOMAIN grq.items[resp.i] :
            resp.space[r] = grq.items[resp.i][r]

\* the space of a declared item without a row was asked for, and the
\* declared hard names two resources with different quantities
C30_Witness ==
  /\ resp.kind = "space"
  /\ resp.i \notin DOMAIN grq.status.quota
  /\ resp.i \in DOMAIN grq.items
  /\ resp.result = "ok"
  /\ \E r1, r2 \in DOMAIN grq.items[resp.i] :
       /\ grq.items[resp.i][r1] # grq.items[resp.i][r2]
       /\ resp.space[r1] = grq.items[resp.i][r1]
       /\ resp.space[r2] = grq.items[resp.i][r2]

\* C28: once a reconcile of an active GRQ has completed without error, with
\* nothing queued and no admission request in flight, the used of every
\* status row equals, for every resource the item declares, the sum of the
\* status.used of the item's managed objects over the selected namespaces
C28_UsedIsRederived ==
  (Quiescent /\ rec.result = "ok" /\ ~rec.syncErr
             /\ grq.exists /\ grq.active) =>
    \A i \in (DOMAIN grq.items) \cap (DOMAIN grq.status.quota) :
      \A r \in DOMAIN grq.items[i] :
        Val(grq.status.quota[i].used, r)
          = SumUsed(GetMatchingGlobalQuotaNamespaces, i, r)

\* C31: GetQuotaSpace and GetAggregatedQuotaSpace return a list and no error
\* for every item name, and for an item without a status row the list is a
\* quota the spec declares
C31_ArithmeticNeverFails ==
  resp.kind \in {"space", "aggregated"}
    => /\ resp.result = "ok"
       /\ resp.i \notin DOMAIN grq.status.quota
            => \E i \in DOMAIN grq.items : resp.space = grq.items[i]

\* C32: for every GRQ, item and localUsed the result of
\* GetAggregatedQuotaSpace has the resource names of GetQuotaSpace's result
\* and, for each of them, its value plus localUsed (0 when the resource is
\* missing from localUsed), with a status row and without one
C32_AggregatedIsSpacePlusUsed ==
  resp.kind = "aggregated"
    => LET plain == GetQuotaSpace(grq, resp.i)
       IN /\ (resp.result = "ok") = plain.ok
          /\ DOMAIN resp.space = DOMAIN plain.space
          /\ \A r \in DOMAIN plain.space :
               resp.space[r] = plain.space[r] + Val(resp.used, r)

\* C33: after AssignNamespaces status.namespaces holds the names of exactly
\* the given namespaces in phase Active, each once and in ascending order,
\* and status.size is the length of that list, whatever the order of the
\* input and whatever the status held before
C33_ActiveSortedAndCounted ==
  resp.kind = "assign"
    => LET l == grq.status.namespaces
           active == {resp.given[k].name :
                        k \in {j \in 1..Len(resp.given) :
                                 resp.given[j].phase = "Active"}}
       IN /\ Range(l) = active
          /\ Len(l) = Cardinality(active)
          /\ \A k \in 1..(Len(l) - 1) : Rank(l[k]) < Rank(l[k + 1])
          /\ grq.status.size = Len(l)

\* AssignNamespaces was called with three namespaces in descending order,
\* the second of them in phase Terminating
C33_Witness ==
  /\ resp.kind = "assign"
  /\ Len(resp.given) = 3
  /\ Rank(resp.given[1].name) > Rank(resp.given[2].name)
  /\ Rank(resp.given[2].name) > Rank(resp.given[3].name)
  /\ resp.given[1].phase = "Active"
  /\ resp.given[2].phase = "Terminating"
  /\ resp.given[3].phase = "Active"
  /\ grq.status.namespaces = <<"a", "c">>
  /\ grq.status.size = 2

\* C34: the resolution of the selectors returns every namespace at most
\* once; a namespace is returned exactly when it is not being deleted and
\* some entry selects it that does not require a tenant namespace or whose
\* namespace carries the tenant label; and the namespaces come in the order
\* of the first entry that admits them, within one entry in the order the
\* entry returned them
C34_FirstEntryWins ==
  resp.kind = "select"
    => LET given == resp.given
           Admits(e, n) ==
             /\ \E k \in 1..Len(given[e].selected) : given[e].selected[k] = n
             /\ resp.cluster[n] # "deleting"
             /\ ~given[e].tenant \/ resp.cluster[n] = "tenant"
           First(n) ==
             CHOOSE e \in 1..Len(given) :
               /\ Admits(e, n)
               /\ \A f \in 1..(e - 1) : ~Admits(f, n)
           At(n) ==
             CHOOSE k \in 1..Len(given[First(n)].selected) :
               given[First(n)].selected[k] = n
       IN /\ \A j, k \in 1..Len(rec.nss) : j # k => rec.nss[j] # rec.nss[k]
          /\ \A n \in Namespaces :
               n \in Range(rec.nss) <=> \E e \in 1..Len(given) : Admits(e, n)
          /\ \A j, k \in 1..Len(rec.nss) :
               j < k =>
                 \/ First(rec.nss[j]) < First(rec.nss[k])
                 \/ /\ First(rec.nss[j]) = First(rec.nss[k])
                    /\ At(rec.nss[j]) < At(rec.nss[k])

\* two entries were resolved: the first requires a tenant namespace and
\* returned b (no tenant label) and c (tenant label), the second returned
\* a (being deleted), b and c; the result is c, then b
C34_Witness ==
  /\ resp.kind = "select"
  /\ resp.cluster = [n \in Namespaces |->
                       IF n = "a" THEN "deleting"
                       ELSE IF n = "b" THEN "plain" ELSE "tenant"]
  /\ resp.given = <<[tenant |-> TRUE, err |-> FALSE,
                     selected |-> <<"b", "c">>],
                    [tenant |-> FALSE, err |-> FALSE,
                     selected |-> <<"a", "b", "c">>]>>
  /\ rec.nss = <<"c", "b">>

\* C35: the used of a status row never exceeds the row's hard: no step of
\* the status mutator, the spec mutator or the deletion handler that stores
\* the GRQ's status takes a row from used <= hard to used > hard
C35_UsedWithinHard ==
  [][\A i \in (DOMAIN grq.status.quota) \cap (DOMAIN grq'.status.quota) :
       \A r \in DOMAIN grq'.status.quota[i].hard :
         (/\ r \in DOMAIN grq.status.quota[i].hard
          /\ Val(grq.status.quota[i].used, r) <= grq.status.quota[i].hard[r])
           => Val(grq'.status.quota[i].used, r)
                <= grq'.status.quota[i].hard[r]]_vars

\* C36: the reconciler collects the managed objects of a namespace of
\* status.namespaces only when the namespace did not satisfy the selector
\* when the reconcile evaluated it; a failed evaluation does not make it
\* delete the objects of a namespace that satisfied the selector
C36_CollectsOnlyLeavers ==
  [][\A n \in Namespaces :
       (/\ rec.pc = "delete"
        /\ rec.next = "fanOut"
        /\ \E i \in Items : rq[n][i].present /\ ~rq'[n][i].present)
         => n \notin Range(rec.sel)]_vars

\* C37: when a deletion failed in a reconcile, a namespace of
\* status.namespaces that no longer matches and still holds a managed object
\* stays in status.namespaces at the end of that reconcile, so that a later
\* reconcile collects it
C37_FailedCollectionIsKept ==
  [][(/\ rec.pc = "statusNamespaces"
      /\ rec.errAt = "delete"
      /\ rec'.pc = "idle"
      /\ grq'.exists)
       => \A n \in Range(rec.inst.status.namespaces) \ Range(rec.nss) :
            (\E i \in Items : rq'[n][i].present)
              => n \in Range(grq'.status.namespaces)]_vars

\* C38: two different pairs of a GRQ name and an item name never get the
\* same name for their managed object, also when the names contain hyphens
C38_NamesDoNotCollide ==
  resp.kind = "names" => resp.names[1] # resp.names[2]

====
